---- MODULE Spec2Model ----
(***************************************************************************)
(* Model of nextgen/bcbio/solexa/flowcell.py (flowcell directory name      *)
(* parser, fastq/qseq layout resolver) and of                              *)
(* nextgen/scripts/project_analysis_setup.py (project delivery script).    *)
(*                                                                         *)
(* Names and paths are strings, inspected character by character as the    *)
(* code does (split, endswith, int, basename, dirname, join, glob).        *)
(***************************************************************************)
EXTENDS Integers, Sequences, FiniteSets, TLC

VARIABLES
    \* ---- get_flowcell_info ----
    fc_dir_arg,     \* the argument of get_flowcell_info, a character sequence
    fc_info,        \* its outcome: not yet called, a ValueError, or (name, date)
    \* ---- get_fastq_dir / get_qseq_dir ----
    fc_tree,        \* the paths that exist below the flowcell root
    listing,        \* the order in which os.listdir yields directory entries
    fastq_dir,      \* result of get_fastq_dir (or NotCalled)
    qseq_dir,       \* result of get_qseq_dir (or NotCalled)
    \* ---- project_analysis_setup.py ----
    argv,           \* the boolean command line flags given
    fc_alias_arg,   \* value of --flowcell_alias (None when absent)
    project_desc,   \* value of --project_desc (None when absent)
    lanes,          \* value of --lanes (None when absent)
    data_prefix,    \* value of --data_prefix
    run_info,       \* the pruned run information: a sequence of lanes
    config,         \* main's config: fc_name, fc_date, fc_alias
    dirs,           \* main's dirs: fc_dir, project_dir and the delivery directories
    fs,             \* the filesystem: path -> [kind, data]
    pc,             \* position of main
    lane_ix,        \* index into run_info of the lane being processed
    todo,           \* transfers of the current step still to be handed to _handle_data
    run,            \* number of the current invocation of the script
    fs_start,       \* the filesystem when the current invocation started
    fs_prev,        \* the filesystem when the previous invocation ended
    written,        \* paths created or written by the current invocation
    invoked,        \* transfer functions invoked by the current invocation
    last            \* what the most recent _handle_data call did

pvars == <<fc_dir_arg, fc_info>>
lvars == <<fc_tree, listing, fastq_dir, qseq_dir>>
dvars == <<argv, fc_alias_arg, project_desc, lanes, data_prefix, run_info, config, dirs,
           fs, pc, lane_ix,
           todo, run, fs_start, fs_prev, written, invoked, last>>
vars == <<pvars, lvars, dvars>>

(***************************************************************************)
(* Bounds                                                                  *)
(***************************************************************************)
MaxTokens == 3      \* tokens in a flowcell directory name
MaxRuns == 2        \* invocations of the delivery script in a row
NumLanes == 2       \* lanes in the flowcell run information
MaxFlags == 2       \* boolean flags given on one command line

(***************************************************************************)
(* String helpers.  Strings are TLA+ strings; Len, Head, Tail, SubSeq and  *)
(* \o apply to them as to sequences of characters.                         *)
(***************************************************************************)
Digits == {"0", "1", "2", "3", "4", "5", "6", "7", "8", "9"}
Whitespace == {" "}
None == "<None>"

Char(s, i) == SubSeq(s, i, i)

\* str.endswith(suffix)
EndsWith(s, suffix) ==
    /\ Len(s) >= Len(suffix)
    /\ SubSeq(s, Len(s) - Len(suffix) + 1, Len(s)) = suffix

\* str.startswith(prefix)
StartsWith(s, prefix) ==
    /\ Len(s) >= Len(prefix)
    /\ SubSeq(s, 1, Len(prefix)) = prefix

\* sub in s
Contains(s, sub) ==
    \E i \in 1..(Len(s) - Len(sub) + 1) : SubSeq(s, i, i + Len(sub) - 1) = sub

\* str.strip() as applied by int() to its argument
RECURSIVE LStrip(_)
LStrip(s) == IF Len(s) > 0 /\ Head(s) \in Whitespace THEN LStrip(Tail(s)) ELSE s

RECURSIVE RStrip(_)
RStrip(s) ==
    IF Len(s) > 0 /\ Char(s, Len(s)) \in Whitespace
    THEN RStrip(SubSeq(s, 1, Len(s) - 1))
    ELSE s

\* int(p) does not raise ValueError: surrounding whitespace is ignored, one sign is
\* allowed, then at least one decimal digit and nothing else
IntParses(p) ==
    LET t == RStrip(LStrip(p))
        u == IF Len(t) > 0 /\ Head(t) \in {"+", "-"} THEN Tail(t) ELSE t
    IN  /\ Len(u) > 0
        /\ \A i \in 1..Len(u) : Char(u, i) \in Digits

\* str.split(sep) for a one-character separator
RECURSIVE SplitFrom(_, _, _)
SplitFrom(s, sep, cur) ==
    IF Len(s) = 0 THEN <<cur>>
    ELSE IF Head(s) = sep THEN <<cur>> \o SplitFrom(Tail(s), sep, "")
    ELSE SplitFrom(Tail(s), sep, cur \o Head(s))

Split(s, sep) == SplitFrom(s, sep, "")

\* index of the last "/" of p, 0 when there is none (p.rfind('/') + 1)
RECURSIVE RFindSlash(_, _)
RFindSlash(p, i) ==
    IF i = 0 THEN 0 ELSE IF Char(p, i) = "/" THEN i ELSE RFindSlash(p, i - 1)

\* os.path.basename(p), os.path.split(p)[1]
basename(p) == SubSeq(p, RFindSlash(p, Len(p)) + 1, Len(p))

\* os.path.dirname(p): the head without its trailing slashes, unless it is all slashes
RECURSIVE StripSlashes(_)
StripSlashes(h) ==
    IF Len(h) > 0 /\ Char(h, Len(h)) = "/" THEN StripSlashes(SubSeq(h, 1, Len(h) - 1)) ELSE h

dirname(p) ==
    LET h == SubSeq(p, 1, RFindSlash(p, Len(p)))
    IN  IF Len(h) > 0 /\ StripSlashes(h) # "" THEN StripSlashes(h) ELSE h

\* os.path.join(a, b) for a relative b: an empty b leaves a trailing separator
join(a, b) ==
    IF StartsWith(b, "/") THEN b
    ELSE IF a = "" \/ EndsWith(a, "/") THEN a \o b
    ELSE a \o "/" \o b

(***************************************************************************)
(* get_flowcell_info                                                       *)
(***************************************************************************)
IsNameToken(p) == EndsWith(p, "XX") \/ EndsWith(p, "xx")
IsDateToken(p) == Len(p) = 6 /\ IntParses(p)

\* the loop body with the date kept once found
ScanStepFirstDate(acc, p) ==
    IF IsNameToken(p) THEN [acc EXCEPT !.name = p]
    ELSE IF IsDateToken(p) /\ acc.date = None THEN [acc EXCEPT !.date = p]
    ELSE acc

\* one iteration of "for p in parts"
ScanStep(acc, p) ==
    IF IsNameToken(p) THEN [acc EXCEPT !.name = p]
    ELSE IF IsDateToken(p) THEN [acc EXCEPT !.date = p]
    ELSE acc

RECURSIVE ScanParts(_, _)
ScanParts(acc, parts) ==
    IF parts = <<>> THEN acc ELSE ScanParts(ScanStep(acc, Head(parts)), Tail(parts))

ValueError == [raised |-> "ValueError"]
NotCalled == [raised |-> "not called"]

get_flowcell_info(arg) ==
    LET parts == Split(basename(arg), "_")
        acc == ScanParts([name |-> None, date |-> None], parts)
    IN  IF acc.name = None \/ acc.date = None
        THEN ValueError
        ELSE [raised |-> "no", name |-> acc.name, date |-> acc.date]

(***************************************************************************)
(* get_qseq_dir, get_fastq_dir                                             *)
(***************************************************************************)
FcRoot == "fc"

\* os.path.join(a, *rest)
RECURSIVE joinAll(_, _)
joinAll(a, rest) == IF rest = <<>> THEN a ELSE joinAll(join(a, Head(rest)), Tail(rest))

\* os.listdir(d) in a tree: the names directly below d, in listing order
RECURSIVE ListFrom(_, _, _)
ListFrom(tree, d, order) ==
    IF order = <<>> THEN <<>>
    ELSE LET p == Head(order)
             rest == ListFrom(tree, d, Tail(order))
         IN  IF p \in tree /\ dirname(p) = d THEN <<basename(p)>> \o rest ELSE rest

\* fnmatch.fnmatch(name, pat) for patterns of literal characters and "*"
RECURSIVE fnmatch(_, _)
fnmatch(name, pat) ==
    IF Len(pat) = 0 THEN Len(name) = 0
    ELSE IF Head(pat) = "*"
         THEN \E k \in 0..Len(name) : fnmatch(SubSeq(name, k + 1, Len(name)), Tail(pat))
    ELSE Len(name) > 0 /\ Head(name) = Head(pat) /\ fnmatch(Tail(name), Tail(pat))

\* glob1(dirname, pattern): the entries of dirname that match, hidden names dropped
\* unless the pattern starts with a dot
GlobIn(tree, order, d, pattern) ==
    LET names == ListFrom(tree, d, order)
        kept == SelectSeq(names, LAMBDA n : /\ (Head(pattern) # "." => ~StartsWith(n, "."))
                                            /\ fnmatch(n, pattern))
    IN  [i \in 1..Len(kept) |-> join(d, kept[i])]

RECURSIVE Flatten(_)
Flatten(ss) == IF ss = <<>> THEN <<>> ELSE Head(ss) \o Flatten(Tail(ss))

\* glob.glob(join(fc_dir, "Data", "*Firecrest*", "Bustard*"))
GlobFirecrestBustard(tree, order, fc_dir) ==
    LET firecrest == GlobIn(tree, order, join(fc_dir, "Data"), "*Firecrest*")
    IN  Flatten([i \in 1..Len(firecrest) |-> GlobIn(tree, order, firecrest[i], "Bustard*")])

\* glob.glob(join(fc_dir, "Data", "Intensities", "*Bustard*"))
GlobIntensitiesBustard(tree, order, fc_dir) ==
    GlobIn(tree, order, joinAll(fc_dir, <<"Data", "Intensities">>), "*Bustard*")

get_qseq_dir(tree, fc_dir) ==
    LET machine_bc == joinAll(fc_dir, <<"Data", "Intensities", "BaseCalls">>)
    IN  IF machine_bc \in tree THEN machine_bc ELSE fc_dir

\* get_fastq_dir with the Bustard layouts looked at before BaseCalls
get_fastq_dir_bustard_first(tree, order, fc_dir) ==
    LET full_goat_bc == GlobFirecrestBustard(tree, order, fc_dir)
        bustard_bc == GlobIntensitiesBustard(tree, order, fc_dir)
        machine_bc == joinAll(fc_dir, <<"Data", "Intensities", "BaseCalls">>)
    IN  IF Len(full_goat_bc) > 0 THEN join(full_goat_bc[1], "fastq")
        ELSE IF Len(bustard_bc) > 0 THEN join(bustard_bc[1], "fastq")
        ELSE IF machine_bc \in tree THEN join(machine_bc, "fastq")
        ELSE fc_dir

get_fastq_dir(tree, order, fc_dir) ==
    LET full_goat_bc == GlobFirecrestBustard(tree, order, fc_dir)
        bustard_bc == GlobIntensitiesBustard(tree, order, fc_dir)
        machine_bc == joinAll(fc_dir, <<"Data", "Intensities", "BaseCalls">>)
    IN  IF machine_bc \in tree THEN join(machine_bc, "fastq")
        ELSE IF Len(full_goat_bc) > 0 THEN join(full_goat_bc[1], "fastq")
        ELSE IF Len(bustard_bc) > 0 THEN join(bustard_bc[1], "fastq")
        ELSE fc_dir

(***************************************************************************)
(* The filesystem of the delivery script: a function from the paths that   *)
(* exist to [kind, data].  kind is "dir", "file" or "link"; data is the    *)
(* content of a file or the target of a link.                              *)
(***************************************************************************)
Dir == [kind |-> "dir", data |-> ""]
File(content) == [kind |-> "file", data |-> content]
Link(target) == [kind |-> "link", data |-> target]

Raised(f) == [ok |-> FALSE, fs |-> f]
Ok(f) == [ok |-> TRUE, fs |-> f]

\* os.path.exists(p): a link exists when what it points to does
exists(f, p) ==
    /\ p \in DOMAIN f
    /\ f[p].kind = "link" => f[p].data \in DOMAIN f

\* os.path.isdir(p)
isdir(f, p) == p \in DOMAIN f /\ f[p].kind = "dir"

RECURSIVE Ancestors(_)
Ancestors(p) ==
    LET d == dirname(p) IN IF d = "" \/ d = p THEN {} ELSE {d} \cup Ancestors(d)

Subtree(f, src) == {p \in DOMAIN f : p = src \/ StartsWith(p, src \o "/")}
Rebase(p, src, tgt) == tgt \o SubSeq(p, Len(src) + 1, Len(p))

\* os.makedirs(p): OSError when p exists or an ancestor is not a directory
makedirs(f, p) ==
    IF p \in DOMAIN f \/ \E q \in Ancestors(p) : q \in DOMAIN f /\ ~isdir(f, q)
    THEN Raised(f)
    ELSE LET need == {q \in Ancestors(p) \cup {p} : q \notin DOMAIN f}
         IN  Ok([q \in DOMAIN f \cup need |-> IF q \in DOMAIN f THEN f[q] ELSE Dir])

\* shutil.copyfile(src, tgt): opens src for reading and tgt for writing
copyfile(f, src, tgt) ==
    IF \/ src \notin DOMAIN f
       \/ f[src].kind # "file"
       \/ ~isdir(f, dirname(tgt))
       \/ isdir(f, tgt)
    THEN Raised(f)
    ELSE Ok((tgt :> File(f[src].data)) @@ f)

\* shutil.copytree(src, tgt): os.makedirs(tgt), then every entry below src
copytree(f, src, tgt) ==
    IF ~isdir(f, src) \/ ~makedirs(f, tgt).ok
    THEN Raised(f)
    ELSE LET g == makedirs(f, tgt).fs
             new == {Rebase(p, src, tgt) : p \in Subtree(f, src)}
         IN  Ok([q \in DOMAIN g \cup new |->
                    IF q \in new
                    THEN f[CHOOSE p \in Subtree(f, src) : Rebase(p, src, tgt) = q]
                    ELSE g[q]])

\* shutil.rmtree(src) / os.unlink(src)
remove(f, src) == [q \in DOMAIN f \ Subtree(f, src) |-> f[q]]

\* shutil.move(src, tgt): into tgt when tgt is a directory; os.rename, and when that
\* fails copytree + rmtree for a directory, copy2 + unlink for a file
move(f, src, tgt) ==
    LET real_dst == IF isdir(f, tgt) THEN join(tgt, basename(src)) ELSE tgt
        renamed == [q \in (DOMAIN f \ Subtree(f, src))
                            \cup {Rebase(p, src, real_dst) : p \in Subtree(f, src)} |->
                       IF q \in DOMAIN f \ Subtree(f, src) THEN f[q]
                       ELSE f[CHOOSE p \in Subtree(f, src) : Rebase(p, src, real_dst) = q]]
    IN  IF src \notin DOMAIN f \/ (isdir(f, tgt) /\ real_dst \in DOMAIN f) THEN Raised(f)
        ELSE IF isdir(f, dirname(real_dst)) THEN Ok(renamed)
        ELSE IF isdir(f, src)
             THEN LET c == copytree(f, src, real_dst)
                  IN  IF c.ok THEN Ok(remove(c.fs, src)) ELSE Raised(f)
        ELSE Raised(f)

\* os.symlink(src, tgt)
symlink(f, src, tgt) ==
    IF tgt \in DOMAIN f \/ ~isdir(f, dirname(tgt))
    THEN Raised(f)
    ELSE Ok((tgt :> Link(src)) @@ f)

\* f(src, tgt) for the transfer function named fn
Transfer(fn, f, src, tgt) ==
    CASE fn = "copyfile" -> copyfile(f, src, tgt)
      [] fn = "move" -> move(f, src, tgt)
      [] fn = "copytree" -> copytree(f, src, tgt)
      [] fn = "symlink" -> symlink(f, src, tgt)

(***************************************************************************)
(* project_analysis_setup.py: command line, derived paths                  *)
(***************************************************************************)
\* parser.add_option(...): the option strings of each destination
only_fastq == "-i" \in argv \/ "--only_install_fastq" \in argv
only_run_info == "-f" \in argv \/ "--only_install_run_info" \in argv
move_data == "-m" \in argv \/ "--move_data" \in argv
dry_run == "-n" \in argv \/ "--dry_run" \in argv

\* the positional arguments <flow cell dir> and <project dir>
fc_dir == "110215_AB0023XX"
project_dir == "proj"

\* get_flowcell_id(run_info, fc_dir): the identity parsed from the directory name
get_flowcell_id(dir) == get_flowcell_info(dir)

NoConfig == [fc_name |-> None, fc_date |-> None, fc_alias |-> None]
NoDirs == [fc_dir |-> fc_dir, project_dir |-> project_dir,
           fc_delivery_dir |-> None, data_delivery_dir |-> None]

\* main, lines 76-78: fc_name, fc_date, and fc_alias defaulting to "%s_%s" % (fc_date, fc_name)
main_config(alias_arg) ==
    LET id == get_flowcell_id(fc_dir)
    IN  [fc_name |-> id.name, fc_date |-> id.date,
         fc_alias |-> IF alias_arg = None \/ alias_arg = ""
                      THEN id.date \o "_" \o id.name
                      ELSE alias_arg]

\* main, lines 79-80
main_dirs(cfg, prefix) ==
    [fc_dir |-> fc_dir, project_dir |-> project_dir,
     fc_delivery_dir |-> joinAll(project_dir, <<prefix, cfg.fc_alias>>),
     data_delivery_dir |->
         joinAll(project_dir, <<prefix, cfg.fc_date \o "_" \o cfg.fc_name>>)]

\* "_".join([str(lane), fc_date, fc_name])
flowcell(cfg, lane) == ToString(lane) \o "_" \o cfg.fc_date \o "_" \o cfg.fc_name

\* "%s_%s_%s_barcode" % (lane, fc_date, fc_name) below the data delivery directory
fc_bc_dir(cfg, d, lane) == join(d.data_delivery_dir, flowcell(cfg, lane) \o "_barcode")

(***************************************************************************)
(* The flowcell directory as the sequencer pipeline left it                *)
(***************************************************************************)
Lanes == 1..NumLanes

\* the names the pipeline gave the lane's files
LaneFiles(l) == ToString(l) \o "_110215_AB0023XX"

SourceData(l) == join(fc_dir, LaneFiles(l) \o ".bam")
SourceFastqc(l) == joinAll(fc_dir, <<"fastqc", LaneFiles(l) \o "_fastqc">>)
SourceBcDir(l) == join(fc_dir, LaneFiles(l) \o "_barcode")
SourceFastq(l, r) == join(SourceBcDir(l), LaneFiles(l) \o "_" \o ToString(r) \o "_fastq.txt")

SourceFiles ==
    UNION {{SourceData(l), join(SourceFastqc(l), "summary.txt"),
            SourceFastq(l, 1), SourceFastq(l, 2)} : l \in Lanes}
SourceDirs ==
    {fc_dir, join(fc_dir, "fastqc")} \cup UNION {{SourceFastqc(l), SourceBcDir(l)} : l \in Lanes}

\* the order in which directory listings of the flowcell directory come out
RECURSIVE SeqOfSet(_)
SeqOfSet(S) == IF S = {} THEN <<>> ELSE LET x == CHOOSE y \in S : TRUE IN <<x>> \o SeqOfSet(S \ {x})
SourceOrder == SeqOfSet(SourceFiles \cup SourceDirs)

SourceTree ==
    [p \in SourceFiles \cup SourceDirs |-> IF p \in SourceDirs THEN Dir ELSE File(p)]

\* _get_analysis_results: glob.glob(os.path.join(fc_dir, flowcell + "*.*"))
GlobData(f, cfg, lane) ==
    GlobIn(DOMAIN f, SourceOrder, fc_dir, flowcell(cfg, lane) \o "*.*")

\* _get_analysis_results: glob.glob(os.path.join(fc_dir, "fastqc", flowcell + "*"))
GlobFastqc(f, cfg, lane) ==
    GlobIn(DOMAIN f, SourceOrder, join(fc_dir, "fastqc"), flowcell(cfg, lane) \o "*")

\* get_barcoded_fastq_files: the fastq files found in the lane's barcode directory,
\* as one group
get_barcoded_fastq_files(f, cfg, lane) ==
    LET found == GlobIn(DOMAIN f, SourceOrder,
                        join(fc_dir, flowcell(cfg, lane) \o "_barcode"),
                        flowcell(cfg, lane) \o "*_fastq.txt")
    IN  IF Len(found) = 0 THEN <<>> ELSE <<found>>

(***************************************************************************)
(* project_analysis_setup.py: the helpers                                  *)
(***************************************************************************)
\* _make_dir(dir, label)
make_dir(f, dir) == IF ~exists(f, dir) THEN makedirs(f, dir) ELSE Ok(f)

\* _handle_data without the test for an existing target
handle_data_overwrite(f, src, tgt, fn, dry) ==
    IF src = None THEN [fs |-> f, outcome |-> "src_none"]
    ELSE IF dry THEN [fs |-> f, outcome |-> "dry_run"]
    ELSE LET r == Transfer(fn, remove(f, tgt), src, tgt)
         IN  IF r.ok THEN [fs |-> r.fs, outcome |-> "done"]
             ELSE [fs |-> f, outcome |-> "raised"]

\* _handle_data(src, tgt, f)
handle_data(f, src, tgt, fn, dry) ==
    IF src = None THEN [fs |-> f, outcome |-> "src_none"]
    ELSE IF exists(f, tgt) THEN [fs |-> f, outcome |-> "skipped"]
    ELSE IF dry THEN [fs |-> f, outcome |-> "dry_run"]
    ELSE LET r == Transfer(fn, f, src, tgt)
         IN  IF r.ok THEN [fs |-> r.fs, outcome |-> "done"]
             ELSE [fs |-> f, outcome |-> "raised"]

\* yaml.dump(run_info)
RECURSIVE yaml_dump(_)
yaml_dump(info) ==
    IF info = <<>> THEN ""
    ELSE "- lane: " \o ToString(Head(info)) \o "\n" \o yaml_dump(Tail(info))

\* _save_run_info with the file opened for appending
save_run_info_append(f, info, outdir, dry) ==
    LET out == join(outdir, "project_run_info.yaml")
        old == IF out \in DOMAIN f THEN f[out].data ELSE ""
    IN  IF dry THEN Ok(f)
        ELSE IF ~isdir(f, outdir) \/ isdir(f, out) THEN Raised(f)
        ELSE Ok((out :> File(old \o yaml_dump(info))) @@ f)

\* _save_run_info(run_info, outdir): open(outfile, "w") and dump, unless dry-run
save_run_info(f, info, outdir, dry) ==
    LET out == join(outdir, "project_run_info.yaml")
    IN  IF dry THEN Ok(f)
        ELSE IF ~isdir(f, outdir) \/ isdir(f, out) THEN Raised(f)
        ELSE Ok((out :> File(yaml_dump(info))) @@ f)

\* main: "if project_desc is None and lanes is None: sys.exit()"
scope_missing(desc, lns) == desc = None /\ lns = None

\* main without the exit on an empty pruned run_info
nothing_selected_ignored(info) == FALSE

\* main: "if len(run_info) == 0: sys.exit()"
nothing_selected(info) == Len(info) = 0

\* f=shutil.move if options.move else shutil.copyfile
file_transfer == IF move_data THEN "move" ELSE "copyfile"
\* f=shutil.move if options.move else shutil.copytree
tree_transfer == IF move_data THEN "move" ELSE "copytree"

Op(src, tgt, fn) == [src |-> src, tgt |-> tgt, f |-> fn]

\* _make_delivery_directory: the link from the alias to the data delivery directory
alias_link(cfg, d) ==
    IF basename(d.data_delivery_dir) # cfg.fc_alias
    THEN <<Op(d.data_delivery_dir,
              join(dirname(d.data_delivery_dir), cfg.fc_alias), "symlink")>>
    ELSE <<>>

\* _deliver_data(data, fastqc, outdir): the calls of _handle_data, in order
deliver_data(data, fastqc, outdir) ==
    [i \in 1..Len(data) |-> Op(data[i], join(outdir, basename(data[i])), file_transfer)]
    \o [i \in 1..Len(fastqc) |->
            Op(fastqc[i], joinAll(outdir, <<"fastqc", basename(fastqc[i])>>), tree_transfer)]

\* "for fqpair in fq: [_deliver_fastq_file(fq_src, basename(fq_src), fc_bc_dir) ...]"
deliver_fastq(fq, outdir) ==
    LET flat == Flatten(fq)
    IN  [i \in 1..Len(flat) |-> Op(flat[i], join(outdir, basename(flat[i])), file_transfer)]

\* paths that differ between two filesystems
Changed(f, g) ==
    {p \in DOMAIN f \cup DOMAIN g : p \notin DOMAIN f \/ p \notin DOMAIN g \/ f[p] # g[p]}

NoCall == [src |-> None, tgt |-> None, f |-> None, outcome |-> "none", existed |-> FALSE]

(***************************************************************************)
(* project_analysis_setup.py: main, one action per step                    *)
(***************************************************************************)
Flags == {"-i", "-f", "--only_install_run_info", "--only_install_fastq", "-m", "-n"}

\* the project directory before the first run: empty, or holding what an earlier
\* delivery of lane 1 left there
EmptyProject == (project_dir :> Dir) @@ SourceTree

Delivered(prefix) ==
    LET ddir == joinAll(project_dir, <<prefix, "110215_AB0023XX">>)
        bdir == join(ddir, LaneFiles(1) \o "_barcode")
        f1 == makedirs(EmptyProject, bdir).fs
    IN  (join(ddir, basename(SourceData(1))) :> File("old"))
        @@ (join(bdir, basename(SourceFastq(1, 1))) :> File("old"))
        @@ (join(bdir, basename(SourceFastq(1, 2))) :> File("old"))
        @@ (join(ddir, "project_run_info.yaml") :> File("old"))
        @@ f1

DIdle ==
    /\ argv = {} /\ fc_alias_arg = None /\ project_desc = None /\ lanes = None
    /\ data_prefix = "" /\ run_info = <<>> /\ config = NoConfig /\ dirs = NoDirs
    /\ fs = <<>> /\ pc = "idle" /\ lane_ix = 0
    /\ todo = <<>> /\ run = 0 /\ fs_start = <<>> /\ fs_prev = <<>> /\ written = {}
    /\ invoked = <<>> /\ last = NoCall

PIdle == fc_dir_arg = "" /\ fc_info = NotCalled
LIdle == fc_tree = {} /\ listing = <<>> /\ fastq_dir = None /\ qseq_dir = None

Init ==
    /\ PIdle /\ LIdle
    /\ data_prefix \in {"", "data"}
    /\ fs \in {EmptyProject, Delivered(data_prefix)}
    /\ fs_start = fs /\ fs_prev = fs
    /\ argv \in {a \in SUBSET Flags : Cardinality(a) <= MaxFlags}
    /\ fc_alias_arg \in {None, "110215_AB0023XX", "P001"}
    /\ \E scope \in {<<None, None>>, <<"ALL", None>>, <<None, "1">>} :
            project_desc = scope[1] /\ lanes = scope[2]
    /\ run_info \in {[i \in 1..n |-> i] : n \in 0..NumLanes}
    \* pruning by --lanes=1 leaves lane 1 at most
    /\ lanes = "1" => \A i \in 1..Len(run_info) : run_info[i] = 1
    /\ config = NoConfig /\ dirs = NoDirs
    /\ pc = "start" /\ lane_ix = 0 /\ todo = <<>> /\ run = 1
    /\ written = {} /\ invoked = <<>> /\ last = NoCall

inputs == <<argv, fc_alias_arg, project_desc, lanes, data_prefix, run_info>>
ghosts == <<run, fs_start, fs_prev>>
setup == <<config, dirs>>

\* main, lines 58-60
CheckScope ==
    /\ pc = "start"
    /\ pc' = IF scope_missing(project_desc, lanes) THEN "exit" ELSE "prune"
    /\ UNCHANGED <<inputs, ghosts, setup, fs, lane_ix, todo, written, invoked, last,
                   pvars, lvars>>

\* main, lines 62-73: run_info is what prune_run_info_by_description returned
LoadAndPrune ==
    /\ pc = "prune"
    /\ pc' = IF nothing_selected(run_info) THEN "exit" ELSE "mkdirs"
    /\ UNCHANGED <<inputs, ghosts, setup, fs, lane_ix, todo, written, invoked, last,
                   pvars, lvars>>

\* main, lines 75-82, and _make_delivery_directory up to its call of _handle_data
MakeDeliveryDirs ==
    /\ pc = "mkdirs"
    /\ config' = main_config(fc_alias_arg)
    /\ dirs' = main_dirs(config', data_prefix)
    /\ LET cfg == config'
           d == dirs'
           r1 == make_dir(fs, d.fc_delivery_dir)
           r2 == make_dir(r1.fs, d.data_delivery_dir)
       IN  IF r1.ok /\ r2.ok
           THEN /\ fs' = r2.fs
                /\ written' = written \cup Changed(fs, r2.fs)
                /\ todo' = alias_link(cfg, d)
                /\ pc' = "link"
           ELSE /\ fs' = r1.fs
                /\ written' = written \cup Changed(fs, r1.fs)
                /\ todo' = <<>>
                /\ pc' = "error"
    /\ UNCHANGED <<inputs, ghosts, lane_ix, invoked, last, pvars, lvars>>

\* one call of _handle_data
HandleData ==
    /\ pc \in {"link", "deliver"}
    /\ todo # <<>>
    /\ LET op == Head(todo)
           r == handle_data(fs, op.src, op.tgt, op.f, dry_run)
       IN  /\ fs' = r.fs
           /\ written' = written \cup Changed(fs, r.fs)
           /\ invoked' = IF r.outcome \in {"done", "raised"} THEN Append(invoked, op)
                         ELSE invoked
           /\ last' = [src |-> op.src, tgt |-> op.tgt, f |-> op.f, outcome |-> r.outcome,
                       existed |-> exists(fs, op.tgt)]
           /\ IF r.outcome = "raised"
              THEN pc' = "error" /\ todo' = <<>>
              ELSE pc' = pc /\ todo' = Tail(todo)
    /\ UNCHANGED <<inputs, ghosts, setup, lane_ix, pvars, lvars>>

\* main, lines 83-84: _save_run_info(run_info, fc_delivery_dir, run_exit=only_run_info),
\* then run_main starts its loop over run_info
SaveRunInfo ==
    /\ pc = "link"
    /\ todo = <<>>
    /\ LET r == save_run_info(fs, run_info, dirs.fc_delivery_dir, dry_run)
       IN  /\ fs' = r.fs
           /\ written' = IF r.ok /\ ~dry_run
                          THEN written \cup {join(dirs.fc_delivery_dir, "project_run_info.yaml")}
                          ELSE written
           /\ pc' = IF ~r.ok THEN "error"
                    ELSE IF only_run_info THEN "exit"
                    ELSE IF Len(run_info) >= 1 THEN "lane"
                    ELSE "done"
    /\ lane_ix' = 1
    /\ UNCHANGED <<inputs, ghosts, setup, todo, invoked, last, pvars, lvars>>

\* process_lane up to its calls of _handle_data
ProcessLane ==
    /\ pc = "lane"
    /\ LET lane == run_info[lane_ix]
           fq == get_barcoded_fastq_files(fs, config, lane)
           bc_dir == fc_bc_dir(config, dirs, lane)
           r == make_dir(fs, bc_dir)
           analysis == IF ~only_fastq
                       THEN deliver_data(GlobData(r.fs, config, lane),
                                         GlobFastqc(r.fs, config, lane),
                                         dirs.data_delivery_dir)
                       ELSE <<>>
       IN  /\ fs' = r.fs
           /\ written' = written \cup Changed(fs, r.fs)
           /\ IF r.ok
              THEN /\ todo' = analysis \o deliver_fastq(fq, bc_dir)
                   /\ pc' = "deliver"
              ELSE /\ todo' = <<>>
                   /\ pc' = "error"
    /\ UNCHANGED <<inputs, ghosts, setup, lane_ix, invoked, last, pvars, lvars>>

\* run_main: the next lane, or the end of main
FinishLane ==
    /\ pc = "deliver"
    /\ todo = <<>>
    /\ lane_ix' = lane_ix + 1
    /\ pc' = IF lane_ix < Len(run_info) THEN "lane" ELSE "done"
    /\ UNCHANGED <<inputs, ghosts, setup, fs, todo, written, invoked, last, pvars, lvars>>

\* the script is started again with the same command line
Rerun ==
    /\ pc \in {"done", "exit"}
    /\ run < MaxRuns
    /\ run' = run + 1
    /\ fs_prev' = fs
    /\ fs_start' = fs
    /\ pc' = "start" /\ lane_ix' = 0 /\ todo' = <<>>
    /\ written' = {} /\ invoked' = <<>> /\ last' = NoCall
    /\ config' = NoConfig /\ dirs' = NoDirs
    /\ UNCHANGED <<inputs, fs, pvars, lvars>>

Next ==
    \/ CheckScope
    \/ LoadAndPrune
    \/ MakeDeliveryDirs
    \/ HandleData
    \/ SaveRunInfo
    \/ ProcessLane
    \/ FinishLane
    \/ Rerun

Spec == Init /\ [][Next]_vars

(***************************************************************************)
(* Specification of get_flowcell_info applied to bounded directory names   *)
(***************************************************************************)
Tokens ==
    {"110215", "101010", "+12345", "12345 ", "AB0023XX", "c1xx", "results", "12a456",
     "1234567"}

RECURSIVE TokenSeqs(_)
TokenSeqs(n) ==
    IF n = 0 THEN {<<>>}
    ELSE TokenSeqs(n - 1) \cup
         {Append(ts, t) : ts \in {x \in TokenSeqs(n - 1) : Len(x) = n - 1}, t \in Tokens}

\* "_".join(ts)
RECURSIVE JoinTokens(_)
JoinTokens(ts) ==
    IF Len(ts) = 1 THEN ts[1] ELSE ts[1] \o "_" \o JoinTokens(Tail(ts))

DirNames == {JoinTokens(ts) : ts \in TokenSeqs(MaxTokens) \ {<<>>}}

ParseInit ==
    /\ \E n \in DirNames : fc_dir_arg \in {n, "/data/seq/" \o n, n \o "/"}
    /\ fc_info = NotCalled
    /\ LIdle /\ DIdle

CallGetFlowcellInfo ==
    /\ fc_info = NotCalled
    /\ fc_info' = get_flowcell_info(fc_dir_arg)
    /\ UNCHANGED <<fc_dir_arg, lvars, dvars>>

ParseNext == CallGetFlowcellInfo

ParseSpec == ParseInit /\ [][ParseNext]_vars

(***************************************************************************)
(* Specification of get_fastq_dir and get_qseq_dir on bounded trees        *)
(***************************************************************************)
LayoutLeaves ==
    {"fc/Data/Intensities/BaseCalls",
     "fc/Data/Intensities/Bustard1.3",
     "fc/Data/Intensities/old_Bustard",
     "fc/Data/Intensities/.Bustard",
     "fc/Data/C1_Firecrest/Bustard1.3",
     "fc/Data/C1_Firecrest/GERALD",
     "fc/Data/Firecrest2/Bustard2",
     "fc/Data/.Firecrest/Bustard1"}

WithAncestors(S) == S \cup UNION {Ancestors(p) : p \in S} \cup {FcRoot}

LayoutOrder == SeqOfSet(WithAncestors(LayoutLeaves))

Reverse(q) == [i \in 1..Len(q) |-> q[Len(q) + 1 - i]]

LayoutInit ==
    /\ \E leaves \in SUBSET LayoutLeaves : fc_tree = WithAncestors(leaves)
    /\ listing \in {LayoutOrder, Reverse(LayoutOrder)}
    /\ fastq_dir = None /\ qseq_dir = None
    /\ PIdle /\ DIdle

CallGetFastqDir ==
    /\ fastq_dir = None
    /\ fastq_dir' = get_fastq_dir(fc_tree, listing, FcRoot)
    /\ UNCHANGED <<fc_tree, listing, qseq_dir, pvars, dvars>>

CallGetQseqDir ==
    /\ qseq_dir = None
    /\ qseq_dir' = get_qseq_dir(fc_tree, FcRoot)
    /\ UNCHANGED <<fc_tree, listing, fastq_dir, pvars, dvars>>

LayoutNext == CallGetFastqDir \/ CallGetQseqDir

LayoutSpec == LayoutInit /\ [][LayoutNext]_vars

(***************************************************************************)
(* Properties of get_flowcell_info (checked under ParseSpec)               *)
(***************************************************************************)
DirTokens == Split(basename(fc_dir_arg), "_")
Is6Digits(t) == Len(t) = 6 /\ \A i \in 1..6 : Char(t, i) \in Digits
EndsXX(t) == EndsWith(t, "XX") \/ EndsWith(t, "xx")
DigitDates == {i \in 1..Len(DirTokens) : Is6Digits(DirTokens[i])}
XXNames == {i \in 1..Len(DirTokens) : EndsXX(DirTokens[i])}
IntDates == {i \in 1..Len(DirTokens) : Len(DirTokens[i]) = 6 /\ IntParses(DirTokens[i])}
Min(S) == CHOOSE x \in S : \A y \in S : x <= y
Max(S) == CHOOSE x \in S : \A y \in S : x >= y
Returned == fc_info # NotCalled /\ fc_info # ValueError

\* C5: a directory name with exactly one 6-digit numeric token and exactly one token
\* ending in XX/xx yields (that XX token, that 6-digit token), whatever the other
\* tokens are
C5_UniquePairReturned ==
    (fc_info # NotCalled /\ Cardinality(DigitDates) = 1 /\ Cardinality(XXNames) = 1)
    => fc_info = [raised |-> "no",
                  name |-> DirTokens[CHOOSE i \in XXNames : TRUE],
                  date |-> DirTokens[CHOOSE i \in DigitDates : TRUE]]

\* C6: get_flowcell_info raises whenever no token is 6 digits or no token ends in
\* XX/xx, so a returned identity has a name ending in XX/xx and a 6-digit date
C6_RaisesUnlessDigitsAndXX ==
    fc_info # NotCalled
    => /\ (DigitDates = {} \/ XXNames = {}) => fc_info = ValueError
       /\ Returned => EndsXX(fc_info.name) /\ Is6Digits(fc_info.date)

\* C10 as stated: of several tokens that qualify as the date (6 characters, parse as
\* an integer) the first one, left to right, is returned
C10_FirstDateWins ==
    (Returned /\ Cardinality(IntDates) >= 2) => fc_info.date = DirTokens[Min(IntDates)]

\* C10 amended: of several tokens that qualify as the date the last one, left to
\* right, is returned
C10_LastDateWins ==
    (Returned /\ Cardinality(IntDates) >= 2) => fc_info.date = DirTokens[Max(IntDates)]

C10_Witness ==
    /\ Returned
    /\ Cardinality(IntDates) >= 2
    /\ DirTokens[Min(IntDates)] # DirTokens[Max(IntDates)]
    /\ fc_info.date = DirTokens[Max(IntDates)]

(***************************************************************************)
(* Properties of get_fastq_dir and get_qseq_dir (checked under LayoutSpec) *)
(***************************************************************************)
BaseCalls == "fc/Data/Intensities/BaseCalls"

\* the position of a path in the directory listing order
Pos(p) == CHOOSE i \in 1..Len(listing) : listing[i] = p

Visible(p) == ~StartsWith(basename(p), ".")

\* the matches of Data/*Firecrest*/Bustard* and of Data/Intensities/*Bustard*
FirecrestMatches ==
    {p \in fc_tree : /\ dirname(dirname(p)) = "fc/Data"
                     /\ Contains(basename(dirname(p)), "Firecrest")
                     /\ Visible(dirname(p))
                     /\ StartsWith(basename(p), "Bustard")}
IntensitiesMatches ==
    {p \in fc_tree : /\ dirname(p) = "fc/Data/Intensities"
                     /\ Contains(basename(p), "Bustard")
                     /\ Visible(p)}

\* the match glob yields first: directories in listing order, then their entries
Before(p, q) ==
    \/ Pos(dirname(p)) < Pos(dirname(q))
    \/ dirname(p) = dirname(q) /\ Pos(p) <= Pos(q)
FirstOf(S) == CHOOSE p \in S : \A q \in S : Before(p, q)

\* C7: BaseCalls/fastq when BaseCalls exists, whatever else is there; else the first
\* Data/*Firecrest*/Bustard* match plus /fastq; else the first
\* Data/Intensities/*Bustard* match plus /fastq; else fc_root.  get_qseq_dir is
\* BaseCalls when it exists and fc_root otherwise.
C7_LayoutPriority ==
    /\ fastq_dir # None =>
          fastq_dir = IF BaseCalls \in fc_tree THEN BaseCalls \o "/fastq"
                      ELSE IF FirecrestMatches # {}
                           THEN FirstOf(FirecrestMatches) \o "/fastq"
                      ELSE IF IntensitiesMatches # {}
                           THEN FirstOf(IntensitiesMatches) \o "/fastq"
                      ELSE FcRoot
    /\ qseq_dir # None =>
          qseq_dir = IF BaseCalls \in fc_tree THEN BaseCalls ELSE FcRoot

C7_Witness ==
    /\ BaseCalls \in fc_tree
    /\ FirecrestMatches # {}
    /\ IntensitiesMatches # {}
    /\ fastq_dir = BaseCalls \o "/fastq"
    /\ qseq_dir = BaseCalls

(***************************************************************************)
(* Properties of the delivery script (checked under Spec)                  *)
(***************************************************************************)
\* what lies at or below project_dir
ProjectTree(f) ==
    LET inside == {p \in DOMAIN f : p = project_dir \/ StartsWith(p, project_dir \o "/")}
    IN  [p \in inside |-> f[p]]

Finished == pc \in {"done", "exit"}
RunInfoFile == join(main_dirs(main_config(fc_alias_arg), data_prefix).fc_delivery_dir,
                    "project_run_info.yaml")

\* C1: with dry-run active a complete run leaves everything under project_dir as it
\* was before the run
C1_DryRunLeavesProjectDir ==
    (dry_run /\ Finished) => ProjectTree(fs) = ProjectTree(fs_start)

C3_NeverOverwrites ==
    [][(pc \in {"link", "deliver"} /\ todo # <<>> /\ exists(fs, Head(todo).tgt))
       => (fs' = fs /\ invoked' = invoked /\ pc' # "error")]_vars

C3_Witness ==
    /\ last.existed /\ last.outcome = "skipped" /\ last.f = "move"
    /\ last.src \in DOMAIN fs
    /\ fs[last.tgt] = File("old")

\* C4: after the top-level directory setup (not dry-run, empty project directory)
\* both delivery directories exist, and the alias name is a symlink to the data
\* delivery directory when it differs from "{fc_date}_{fc_name}"; otherwise there is
\* no symlink
C4_AliasIsSymlink ==
    (run = 1 /\ ~dry_run /\ fs_start = EmptyProject /\ pc = "link" /\ todo = <<>>)
    => /\ exists(fs, dirs.fc_delivery_dir)
       /\ exists(fs, dirs.data_delivery_dir)
       /\ LET alias == join(dirname(dirs.data_delivery_dir), config.fc_alias)
          IN  IF config.fc_alias # config.fc_date \o "_" \o config.fc_name
              THEN fs[alias] = Link(dirs.data_delivery_dir)
              ELSE \A p \in DOMAIN fs : fs[p].kind # "link"

\* C8: -i and --only_install_run_info make the run exit after the pruned run_info is
\* written, before any lane is processed; -f and --only_install_fastq skip the
\* analysis/fastqc delivery and still deliver the fastq files
C8_DocumentedFlags ==
    /\ ("-i" \in argv \/ "--only_install_run_info" \in argv)
          => pc \notin {"lane", "deliver", "done"}
    /\ (("-f" \in argv \/ "--only_install_fastq" \in argv)
        /\ ~("-i" \in argv \/ "--only_install_run_info" \in argv))
          => /\ ~(pc = "exit" /\ config # NoConfig)
             /\ pc = "deliver" =>
                   \A i \in 1..Len(todo) : EndsWith(todo[i].src, "_fastq.txt")

\* C9: without project description and lane list, or with nothing left after
\* pruning, main exits before any delivery step: nothing is created, written or
\* transferred
C9_NoDeliveryWithoutScope ==
    ((project_desc = None /\ lanes = None) \/ Len(run_info) = 0)
    => /\ pc \in {"start", "prune", "exit"}
       /\ fs = fs_start
       /\ written = {}
       /\ invoked = <<>>

C9_Witness ==
    /\ pc = "exit" /\ run = 1
    /\ project_desc # None
    /\ Len(run_info) = 0
    /\ fs = fs_start

====
